---- MODULE Spec2Model ----
(***************************************************************************)
(* Model of src/main.rs of opengl-tilemap: the setup sequence of main      *)
(* (display, atlas, world raster, quad geometry, program, clock origin)    *)
(* and the closure handed to event_loop.run, which draws one frame per     *)
(* event.                                                                  *)
(*                                                                         *)
(* Numbers:                                                                *)
(*  - bytes are naturals in 0..255;                                        *)
(*  - f32 quad coordinates are kept in tenths (-0.5 is -5, 1.0 is 10);     *)
(*  - Instants and Durations are whole nanoseconds;                        *)
(*  - Duration::as_secs_f32 rounds the nanoseconds to the 24-bit           *)
(*    significand of an f32; the f32 seconds are kept as the whole number  *)
(*    of nanoseconds they stand for;                                       *)
(*  - the f32 zoom 1.0 / s.powi(2) is kept as the term [num, base, exp],   *)
(*    num / base^exp, base = 0 standing for the +infinity that f32         *)
(*    division yields at s = 0.  The roundings of the division by 1e9, of  *)
(*    powi and of 1.0 / x are monotone and are left out.                    *)
(***************************************************************************)
EXTENDS Integers, Sequences, FiniteSets, TLC

\* ------------------------------------------------------------------ bounds
\* WORLD_WIDTH and WORLD_HEIGHT are 1000 in main.rs:103-104; the model runs
\* the same code on rasters of at most MaxWidth x MaxHeight pixels.
MaxWidth == 4
MaxHeight == 4
\* longest pattern drawn as an encoder input (the code's own pattern, of
\* length 4, is always among the inputs)
MaxPatLen == 2
\* largest decoded atlas image drawn as an input, in pixels
MaxImgWidth == 3
MaxImgHeight == 3
\* the clock is read at 0..MaxTime ns and at 2^24..2^24+MaxTime ns
MaxTime == 3

\* ------------------------------------------------------- program constants
BYTES_PER_RGB_VALUE == 3
\* Duration: nanoseconds per second
NANOS_PER_SEC == 1000000000
\* 2^24: f32 has a 24-bit significand, so every integer up to 2^24 is an f32
F32_EXACT == 16777216
\* gen_vertices, in tenths
MAP_WIDTH == 10
MAP_HEIGHT == 10
MAP_X == 0 - 5
MAP_Y == 0 - 5

\* a value not assigned yet is None, an assigned one is Some(x)
None == <<>>
Some(x) == <<x>>
The(o) == o[1]
\* no unwrap() has met an Err / the closure has not been called yet
NoFailure == "NoFailure"
NoEvent == "NoEvent"

BOTTOM_LEFT == <<0, 0>>
BOTTOM_RIGHT == <<0, 1>>
UPPER_LEFT == <<1, 0>>
UPPER_RIGHT == <<1, 1>>
\* let pattern = [BOTTOM_LEFT, BOTTOM_RIGHT, UPPER_LEFT, UPPER_RIGHT];
CodePattern == <<BOTTOM_LEFT, BOTTOM_RIGHT, UPPER_LEFT, UPPER_RIGHT>>

VARIABLES
    pc,            \* position in main / in the closure
    failure,       \* the Err an unwrap() met, or NoFailure
    rgb8_img,      \* img.to_rgb8(): [data, width, height], rows top to bottom
    width,         \* WORLD_WIDTH
    height,        \* WORLD_HEIGHT
    pattern,       \* the encoder's tile pattern
    display,       \* Display created
    tilemap,       \* the atlas RawImage2d / texture, or None
    worlddata,     \* the Vec<u8> generate_worlddata returned, or None
    world,         \* the world RawImage2d / texture, or None
    vertices,      \* vertex buffer, or None
    quad_indices,  \* index buffer, or None
    program,       \* Program compiled
    start,         \* clock origin, or None
    now,           \* last reading of the monotonic clock
    event,         \* the event the closure was called with, or NoEvent
    control_flow,  \* *control_flow
    elapsed,       \* (Instant::now() - start) of the current iteration
    time,          \* the closure's local `time` (the zoom), or None
    open_frames,   \* Frames from display.draw() that are not finished yet
    ops,           \* frame operations done so far by the current iteration
    last_draw,     \* arguments of the most recent target.draw call, or None
    drawn          \* <<elapsed, zoom>> of the last two draw calls, newest last

vars == <<pc, failure, rgb8_img, width, height, pattern, display, tilemap,
          worlddata, world, vertices, quad_indices, program, start, now,
          event, control_flow, elapsed, time, open_frames, ops, last_draw,
          drawn>>

config == <<rgb8_img, width, height, pattern>>
gpu == <<display, tilemap, worlddata, world, vertices, quad_indices, program>>
loop == <<start, now, event, control_flow, elapsed, time, open_frames, ops,
          last_draw, drawn>>

\* ------------------------------------------------------------ pure helpers
\* slice::chunks(n).rev().flat_map(..): the n-sized chunks of data, last
\* chunk first, each chunk's elements in order
RECURSIVE RevChunks(_, _)
RevChunks(data, n) ==
    IF Len(data) <= n THEN data
    ELSE RevChunks(SubSeq(data, n + 1, Len(data)), n) \o SubSeq(data, 1, n)

\* RawImage2d::from_raw_rgb(data, dimensions)
from_raw_rgb(data, dimensions) ==
    [data |-> data, width |-> dimensions[1], height |-> dimensions[2]]

RECURSIVE Reverse(_)
Reverse(s) == IF Len(s) = 0 THEN <<>>
              ELSE Append(Reverse(SubSeq(s, 2, Len(s))), s[1])

\* faulty variant: the whole byte vector reversed instead of the row order
from_raw_rgb_bytes_reversed(data, dimensions) ==
    from_raw_rgb(Reverse(data), dimensions)

\* RawImage2d::from_raw_rgb_reversed(data, dimensions): the rows of
\* dimensions.0 * 3 bytes in reverse order (main.rs:80-99)
from_raw_rgb_reversed(data, dimensions) ==
    from_raw_rgb(RevChunks(data, dimensions[1] * 3), dimensions)

\* load_tilemap after the decode: rgb8_img.dimensions(), rgb8_img.to_vec()
load_tilemap(img) ==
    LET dimensions == <<img.width, img.height>>
    IN  from_raw_rgb_reversed(img.data, dimensions)

\* faulty variant: the pattern is zipped without .cycle(), so only the first
\* Len(pat) pixels are written
generate_worlddata_nocycle(w, h, pat) ==
    LET n == BYTES_PER_RGB_VALUE * (w * h)
    IN  [k \in 1..n |->
            LET i == (k - 1) \div BYTES_PER_RGB_VALUE
                c == (k - 1) % BYTES_PER_RGB_VALUE
            IN  IF i >= Len(pat) THEN 0
                ELSE LET xy == pat[i + 1]
                     IN  IF c = 0 THEN xy[1]
                         ELSE IF c = 1 THEN xy[2]
                         ELSE 0]

\* faulty variant: pixel[0] = *y and pixel[1] = *x
generate_worlddata_swapped(w, h, pat) ==
    LET n == BYTES_PER_RGB_VALUE * (w * h)
    IN  [k \in 1..n |->
            LET i == (k - 1) \div BYTES_PER_RGB_VALUE
                c == (k - 1) % BYTES_PER_RGB_VALUE
            IN  IF Len(pat) = 0 THEN 0
                ELSE LET xy == pat[(i % Len(pat)) + 1]
                     IN  IF c = 0 THEN xy[2]
                         ELSE IF c = 1 THEN xy[1]
                         ELSE 0]

\* faulty variant: pixel[0] holds the position of the tile in the pattern instead
\* of its x coordinate
generate_worlddata_linear(w, h, pat) ==
    LET n == BYTES_PER_RGB_VALUE * (w * h)
    IN  [k \in 1..n |->
            LET i == (k - 1) \div BYTES_PER_RGB_VALUE
                c == (k - 1) % BYTES_PER_RGB_VALUE
            IN  IF Len(pat) = 0 THEN 0
                ELSE LET xy == pat[(i % Len(pat)) + 1]
                     IN  IF c = 0 THEN i % Len(pat)
                         ELSE IF c = 1 THEN xy[2]
                         ELSE 0]

\* generate_worlddata with WORLD_WIDTH, WORLD_HEIGHT and the pattern as
\* parameters: a zeroed vector of 3*w*h bytes, whose 3-byte chunks are
\* zipped with the endlessly cycled pattern. An empty pattern cycles to an
\* empty iterator, so the zip writes nothing.
generate_worlddata(w, h, pat) ==
    LET n == BYTES_PER_RGB_VALUE * (w * h)
    IN  [k \in 1..n |->
            LET i == (k - 1) \div BYTES_PER_RGB_VALUE
                c == (k - 1) % BYTES_PER_RGB_VALUE
            IN  IF Len(pat) = 0 THEN 0
                ELSE LET xy == pat[(i % Len(pat)) + 1]
                     IN  IF c = 0 THEN xy[1]
                         ELSE IF c = 1 THEN xy[2]
                         ELSE 0]

\* gen_vertices: the four Vertex positions, vertex 0 first (Rust index i is
\* sequence index i + 1)
gen_vertices ==
    << <<MAP_X, MAP_Y + MAP_HEIGHT>>,
       <<MAP_X + MAP_WIDTH, MAP_Y + MAP_HEIGHT>>,
       <<MAP_X + MAP_WIDTH, MAP_Y>>,
       <<MAP_X, MAP_Y>> >>

\* the index buffer's contents: TrianglesList, two triangles
QuadIndexData == <<3, 1, 2, 3, 0, 1>>

\* ------------------------------------------------------------------- Init
\* a decoded image whose bytes are all different: row-major, top row first
TestImage(w, h, seed) ==
    [data |-> [k \in 1..(3 * w * h) |-> (seed + k) % 256],
     width |-> w, height |-> h]

InitRest ==
    /\ pc = "display"
    /\ failure = NoFailure
    /\ display = FALSE
    /\ tilemap = None
    /\ worlddata = None
    /\ world = None
    /\ vertices = None
    /\ quad_indices = None
    /\ program = FALSE
    /\ start = None
    /\ now = 0
    /\ event = NoEvent
    /\ control_flow = "Poll"
    /\ elapsed = None
    /\ time = None
    /\ open_frames = 0
    /\ ops = <<>>
    /\ last_draw = None
    /\ drawn = <<>>

Init ==
    /\ rgb8_img = TestImage(2, 2, 0)
    /\ width = MaxWidth
    /\ height = MaxHeight
    /\ pattern = CodePattern
    /\ InitRest

\* ----------------------------------------------------------- setup of main
Panic(what) ==
    /\ failure' = what
    /\ pc' = "panicked"

\* Display::new(..).unwrap()                        main.rs:45
SetupDisplay ==
    /\ pc = "display"
    /\ \E ok \in BOOLEAN :
          IF ok
          THEN /\ display' = TRUE
               /\ pc' = "load_tilemap"
               /\ UNCHANGED failure
          ELSE /\ Panic("Display")
               /\ UNCHANGED display
    /\ UNCHANGED <<config, tilemap, worlddata, world, vertices, quad_indices,
                   program, loop>>

\* load_tilemap: decode (unwrap), to_rgb8, from_raw_rgb_reversed  main.rs:54
LoadTilemap ==
    /\ pc = "load_tilemap"
    /\ \E ok \in BOOLEAN :
          IF ok
          THEN /\ tilemap' = Some(load_tilemap(rgb8_img))
               /\ pc' = "tilemap_texture"
               /\ UNCHANGED failure
          ELSE /\ Panic("Decode")
               /\ UNCHANGED tilemap
    /\ UNCHANGED <<config, display, worlddata, world, vertices, quad_indices,
                   program, loop>>

\* Texture2d::new(&display, tilemap).unwrap()       main.rs:52
TilemapTexture ==
    /\ pc = "tilemap_texture"
    /\ \E ok \in BOOLEAN :
          IF ok
          THEN /\ pc' = "generate_worlddata"
               /\ UNCHANGED failure
          ELSE Panic("Texture")
    /\ UNCHANGED <<config, gpu, loop>>

\* let worlddata = generate_worlddata();            main.rs:106
GenerateWorlddata ==
    /\ pc = "generate_worlddata"
    /\ worlddata' = Some(generate_worlddata(width, height, pattern))
    /\ pc' = "world_texture"
    /\ UNCHANGED <<failure, config, display, tilemap, world, vertices,
                   quad_indices, program, loop>>

\* faulty variant: the Err of Texture2d::new is dropped instead of unwrapped
WorldTexture_error_ignored ==
    /\ pc = "world_texture"
    /\ \E ok \in BOOLEAN :
          IF ok
          THEN /\ world' = Some(from_raw_rgb(The(worlddata), <<width, height>>))
               /\ UNCHANGED failure
          ELSE /\ failure' = "Texture"
               /\ UNCHANGED world
    /\ pc' = "vertices"
    /\ UNCHANGED <<config, display, tilemap, worlddata, vertices,
                   quad_indices, program, loop>>

\* RawImage2d::from_raw_rgb(worlddata, ..); Texture2d::new(..).unwrap()
WorldTexture ==
    /\ pc = "world_texture"
    /\ \E ok \in BOOLEAN :
          IF ok
          THEN /\ world' = Some(from_raw_rgb(The(worlddata), <<width, height>>))
               /\ pc' = "vertices"
               /\ UNCHANGED failure
          ELSE /\ Panic("Texture")
               /\ UNCHANGED world
    /\ UNCHANGED <<config, display, tilemap, worlddata, vertices,
                   quad_indices, program, loop>>

\* gen_vertices(); VertexBuffer::new(..).unwrap()   main.rs:164-165
SetupVertices ==
    /\ pc = "vertices"
    /\ \E ok \in BOOLEAN :
          IF ok
          THEN /\ vertices' = Some(gen_vertices)
               /\ pc' = "quad_indices"
               /\ UNCHANGED failure
          ELSE /\ Panic("VertexBuffer")
               /\ UNCHANGED vertices
    /\ UNCHANGED <<config, display, tilemap, worlddata, world, quad_indices,
                   program, loop>>

\* IndexBuffer::<u8>::new(..).unwrap()              main.rs:191-199
SetupIndices ==
    /\ pc = "quad_indices"
    /\ \E ok \in BOOLEAN :
          IF ok
          THEN /\ quad_indices' = Some(QuadIndexData)
               /\ pc' = "program"
               /\ UNCHANGED failure
          ELSE /\ Panic("IndexBuffer")
               /\ UNCHANGED quad_indices
    /\ UNCHANGED <<config, display, tilemap, worlddata, world, vertices,
                   program, loop>>

\* Program::from_source(..).unwrap()                main.rs:261-262
SetupProgram ==
    /\ pc = "program"
    /\ \E ok \in BOOLEAN :
          IF ok
          THEN /\ program' = TRUE
               /\ pc' = "start"
               /\ UNCHANGED failure
          ELSE /\ Panic("Program")
               /\ UNCHANGED program
    /\ UNCHANGED <<config, display, tilemap, worlddata, world, vertices,
                   quad_indices, loop>>

\* the values Instant::now() returns: it never goes back
Instants == (0..MaxTime) \cup {F32_EXACT + k : k \in 0..MaxTime}

\* let start = Instant::now();                     main.rs:265
StartClock ==
    /\ pc = "start"
    /\ \E t \in {i \in Instants : i >= now} :
          /\ now' = t
          /\ start' = Some(t)
    /\ pc' = "wait"
    /\ UNCHANGED <<failure, config, gpu, event, control_flow, elapsed, time,
                   open_frames, ops, last_draw, drawn>>

SetupNext ==
    \/ SetupDisplay
    \/ LoadTilemap
    \/ TilemapTexture
    \/ GenerateWorlddata
    \/ WorldTexture
    \/ SetupVertices
    \/ SetupIndices
    \/ SetupProgram
    \/ StartClock

\* --------------------------------------------------- event_loop.run(..)
\* The events winit hands to the closure while the loop runs.  After the
\* closure has set ControlFlow::Exit the loop sends LoopDestroyed, the last
\* event, and stops.
LoopEvents == {"NewEvents", "CloseRequested", "WindowEvent", "DeviceEvent",
               "MainEventsCleared", "RedrawEventsCleared"}

\* the spacing of the f32 numbers around n >= 0
RECURSIVE Ulp(_)
Ulp(n) == IF n < F32_EXACT THEN 1 ELSE 2 * Ulp(n \div 2)

\* `n as f32` for an unsigned integer n: the nearest f32, ties to even
as_f32(n) ==
    LET u == Ulp(n)
        q == n \div u
        r == n % u
    IN  IF 2 * r < u THEN q * u
        ELSE IF 2 * r > u THEN (q + 1) * u
        ELSE IF q % 2 = 0 THEN q * u
        ELSE (q + 1) * u

\* Duration::as_secs_f32: (secs as f32) + (nanos as f32) / 1e9, here in ns
as_secs_f32(d) ==
    as_f32(d \div NANOS_PER_SEC) * NANOS_PER_SEC + as_f32(d % NANOS_PER_SEC)

\* faulty variant: the elapsed time is not squared
Zoom_linear(e) == [num |-> 1, base |-> as_secs_f32(e), exp |-> 1]

\* 1.0 / (Instant::now() - start).as_secs_f32().powi(2)
Zoom(e) == [num |-> 1, base |-> as_secs_f32(e), exp |-> 2]

\* faulty variant: DrawParameters::default(), whose provoking vertex is the last one
draw_params_default == [provoking_vertex |-> "LastVertex"]

\* DrawParameters { provoking_vertex: FirstVertex, ..Default::default() }
draw_params == [provoking_vertex |-> "FirstVertex"]

\* tilemap.sampled().magnify_filter(Nearest).minify_filter(LinearMipmapLinear)
tilemap_sampler ==
    [texture |-> "tilemap", magnify_filter |-> "Nearest",
     minify_filter |-> "LinearMipmapLinear"]

\* faulty variant: the world sampler given the atlas sampler's minify filter
worldmap_sampler_linear ==
    [texture |-> "world", magnify_filter |-> "Nearest",
     minify_filter |-> "LinearMipmapLinear"]

\* world.sampled().magnify_filter(Nearest).minify_filter(Nearest)
worldmap_sampler ==
    [texture |-> "world", magnify_filter |-> "Nearest",
     minify_filter |-> "Nearest"]

\* uniform! { zoom: time, tilemap: tilemap_sampler, indices: worldmap_sampler }
Uniforms(t) ==
    [zoom |-> t, tilemap |-> tilemap_sampler, indices |-> worldmap_sampler]

\* the event loop calls the closure with the next event
Dispatch ==
    /\ pc = "wait"
    /\ event /= "LoopDestroyed"
    /\ \E ev \in (IF control_flow = "Exit" THEN {"LoopDestroyed"}
                  ELSE LoopEvents) :
          event' = ev
    /\ ops' = <<>>
    /\ pc' = "time"
    /\ UNCHANGED <<failure, config, gpu, start, now, control_flow, elapsed,
                   time, open_frames, last_draw, drawn>>

\* let time = 1.0 / (Instant::now() - start).as_secs_f32().powi(2);
ComputeTime ==
    /\ pc = "time"
    /\ \E t \in {i \in Instants : i >= now} :
          /\ now' = t
          /\ elapsed' = Some(t - The(start))
          /\ time' = Some(Zoom(t - The(start)))
    /\ ops' = Append(ops, "zoom")
    /\ pc' = "begin"
    /\ UNCHANGED <<failure, config, gpu, start, event, control_flow,
                   open_frames, last_draw, drawn>>

\* let mut target = display.draw();
BeginFrame ==
    /\ pc = "begin"
    /\ open_frames' = open_frames + 1
    /\ ops' = Append(ops, "begin")
    /\ pc' = "clear"
    /\ UNCHANGED <<failure, config, gpu, start, now, event, control_flow,
                   elapsed, time, last_draw, drawn>>

\* target.clear_color(0.0, 0.0, 0.0, 0.0);
ClearColor ==
    /\ pc = "clear"
    /\ ops' = Append(ops, "clear")
    /\ pc' = "draw"
    /\ UNCHANGED <<failure, config, gpu, start, now, event, control_flow,
                   elapsed, time, open_frames, last_draw, drawn>>

LastTwo(s) == IF Len(s) <= 2 THEN s ELSE SubSeq(s, Len(s) - 1, Len(s))

\* target.draw(&vertices, &quad_indices, &program, &uniform!{..},
\*             &draw_params).unwrap();
Draw ==
    /\ pc = "draw"
    /\ \E ok \in BOOLEAN :
          IF ok
          THEN /\ last_draw' = Some([vertices |-> The(vertices),
                                indices |-> The(quad_indices),
                                uniforms |-> Uniforms(The(time)),
                                params |-> draw_params])
               /\ drawn' = LastTwo(Append(drawn, <<The(elapsed), The(time)>>))
               /\ ops' = Append(ops, "draw")
               /\ pc' = "finish"
               /\ UNCHANGED failure
          ELSE /\ Panic("Draw")
               /\ UNCHANGED <<last_draw, drawn, ops>>
    /\ UNCHANGED <<config, gpu, start, now, event, control_flow, elapsed,
                   time, open_frames>>

\* faulty variant: target.finish() is left out
Finish_forgotten ==
    /\ pc = "finish"
    /\ pc' = "check"
    /\ UNCHANGED <<failure, config, gpu, loop>>

\* target.finish().unwrap(): finish consumes the Frame and swaps buffers
Finish ==
    /\ pc = "finish"
    /\ open_frames' = open_frames - 1
    /\ \E ok \in BOOLEAN :
          IF ok
          THEN /\ ops' = Append(ops, "present")
               /\ pc' = "check"
               /\ UNCHANGED failure
          ELSE /\ Panic("SwapBuffers")
               /\ UNCHANGED ops
    /\ UNCHANGED <<config, gpu, start, now, event, control_flow, elapsed,
                   time, last_draw, drawn>>

\* faulty variant: the pattern matches every WindowEvent
CloseCheck_any_window_event ==
    /\ pc = "check"
    /\ control_flow' = IF event \in {"CloseRequested", "WindowEvent"}
                       THEN "Exit" ELSE control_flow
    /\ elapsed' = None
    /\ time' = None
    /\ pc' = "wait"
    /\ UNCHANGED <<failure, config, gpu, start, now, event, open_frames,
                   ops, last_draw, drawn>>

\* if let Event::WindowEvent { event: CloseRequested, .. } = event {
\*     *control_flow = ControlFlow::Exit; return; }
\* and the closure returns to the event loop
CloseCheck ==
    /\ pc = "check"
    /\ control_flow' = IF event = "CloseRequested" THEN "Exit"
                       ELSE control_flow
    /\ elapsed' = None
    /\ time' = None
    /\ pc' = "wait"
    /\ UNCHANGED <<failure, config, gpu, start, now, event, open_frames,
                   ops, last_draw, drawn>>

\* the event loop stops after the closure has handled LoopDestroyed
LoopExit ==
    /\ pc = "wait"
    /\ event = "LoopDestroyed"
    /\ pc' = "exited"
    /\ UNCHANGED <<failure, config, gpu, loop>>

FrameNext ==
    \/ Dispatch
    \/ ComputeTime
    \/ BeginFrame
    \/ ClearColor
    \/ Draw
    \/ Finish
    \/ CloseCheck
    \/ LoopExit

Next == SetupNext \/ FrameNext

Spec == Init /\ [][Next]_vars

\* -------------------------------------------- specifications over inputs
Tiles == {BOTTOM_LEFT, BOTTOM_RIGHT, UPPER_LEFT, UPPER_RIGHT}

Patterns ==
    {CodePattern} \cup
    UNION {[1..n -> Tiles] : n \in 0..MaxPatLen}

\* the encoder run on every raster size and pattern within the bounds
InitEncoder ==
    /\ rgb8_img = TestImage(2, 2, 0)
    /\ width \in 1..MaxWidth
    /\ height \in 1..MaxHeight
    /\ pattern \in Patterns
    /\ InitRest

SpecEncoder == InitEncoder /\ [][SetupNext]_vars

Seeds == {0, 100, 250}

\* load_tilemap run on decoded images of every size within the bounds
InitAtlas ==
    /\ \E w \in 1..MaxImgWidth, h \in 1..MaxImgHeight, seed \in Seeds :
          rgb8_img = TestImage(w, h, seed)
    /\ width = MaxWidth
    /\ height = MaxHeight
    /\ pattern = CodePattern
    /\ InitRest

SpecAtlas == InitAtlas /\ [][SetupNext]_vars

\* ------------------------------------------------------------- properties
\* the tile stored for the pixel at (row, col) of a raster w pixels wide,
\* row 0 being the first row of the buffer (the bottom row of the texture)
TileAt(data, w, row, col) ==
    <<data[3 * (row * w + col) + 1], data[3 * (row * w + col) + 2]>>

\* C1: for every width, height and non-empty pattern, generate_worlddata
\* returns exactly width*height*3 bytes and pixel i (row-major from the
\* bottom row, pixel 0 first) carries pattern[i mod len(pattern)] in its
\* first two bytes.
C1_EncoderCyclesPattern ==
    (worlddata /= None /\ Len(pattern) > 0) =>
        /\ Len(The(worlddata)) = width * height * 3
        /\ \A i \in 0..(width * height - 1) :
              <<The(worlddata)[3 * i + 1], The(worlddata)[3 * i + 2]>>
                  = pattern[(i % Len(pattern)) + 1]
        /\ \A row \in 0..(height - 1), col \in 0..(width - 1) :
              TileAt(The(worlddata), width, row, col)
                  = pattern[((row * width + col) % Len(pattern)) + 1]

C1_Witness ==
    /\ worlddata /= None
    /\ width = 3
    /\ height = 2
    /\ pattern = <<UPPER_RIGHT, BOTTOM_RIGHT>>

\* C2: the atlas buffer load_tilemap returns has the rows of the decoded
\* image in reverse order, each row's bytes in their order, and the same
\* dimensions.
C2_AtlasRowsReversed ==
    tilemap /= None =>
        LET N == rgb8_img.height
            rowlen == 3 * rgb8_img.width
        IN  /\ The(tilemap).width = rgb8_img.width
            /\ The(tilemap).height = rgb8_img.height
            /\ Len(The(tilemap).data) = Len(rgb8_img.data)
            /\ \A r \in 0..(N - 1), b \in 1..rowlen :
                  The(tilemap).data[r * rowlen + b]
                      = rgb8_img.data[(N - 1 - r) * rowlen + b]

C2_Witness ==
    /\ tilemap /= None
    /\ rgb8_img.height = 3
    /\ rgb8_img.width = 2

\* the case of C3: the code's pattern on a 4x4 raster
C3_Case ==
    /\ worlddata /= None
    /\ width = 4
    /\ height = 4
    /\ pattern = CodePattern

\* C3 as stated: on the 4x4 raster with the code's pattern, the tile at
\* (row, col) equals the tile at (row mod 2, col mod 2), and every aligned
\* 2x2 block holds the four distinct pattern entries.
C3_TwoByTwoBlocks ==
    C3_Case =>
        /\ \A row \in 0..3, col \in 0..3 :
              TileAt(The(worlddata), 4, row, col)
                  = TileAt(The(worlddata), 4, row % 2, col % 2)
        /\ \A br \in {0, 2}, bc \in {0, 2} :
              Cardinality({TileAt(The(worlddata), 4, br + dr, bc + dc) :
                              dr \in {0, 1}, dc \in {0, 1}}) = 4

\* C3 amended: on the 4x4 raster with the code's pattern, the tile at
\* (row, col) equals the tile at (0, col), which is pattern[col], and the
\* four cells of every row hold the four distinct pattern entries.
C3_ColumnStripes ==
    C3_Case =>
        /\ \A row \in 0..3, col \in 0..3 :
              /\ TileAt(The(worlddata), 4, row, col) = TileAt(The(worlddata), 4, 0, col)
              /\ TileAt(The(worlddata), 4, row, col) = CodePattern[col + 1]
        /\ \A row \in 0..3 :
              Cardinality({TileAt(The(worlddata), 4, row, col) : col \in 0..3}) = 4

C3_Witness ==
    /\ C3_Case
    /\ TileAt(The(worlddata), 4, 1, 2) = UPPER_LEFT
    /\ pc = "world_texture"

\* every RGB triplet of a buffer is a tile index of the 2x2 atlas grid
WellFormedRaster(data) ==
    \A i \in 0..((Len(data) \div 3) - 1) :
        /\ data[3 * i + 1] < 2
        /\ data[3 * i + 2] < 2
        /\ data[3 * i + 3] = 0

\* C4: every triplet of the generated raster has channel 0 < 2, channel
\* 1 < 2 and channel 2 = 0, and the raster, once generated and once
\* uploaded, never changes.
C4_RasterWellFormedAndImmutable ==
    /\ [](worlddata /= None =>
            /\ Len(The(worlddata)) = 3 * width * height
            /\ WellFormedRaster(The(worlddata)))
    /\ [](world /= None =>
            /\ The(world).data = The(worlddata)
            /\ WellFormedRaster(The(world).data))
    /\ [][worlddata /= None => worlddata' = worlddata]_vars
    /\ [][world /= None => world' = world]_vars

C4_Witness ==
    /\ world /= None
    /\ Len(The(world).data) = 3 * MaxWidth * MaxHeight
    /\ Len(drawn) = 2
    /\ pc = "clear"

\* the vertex whose flat attributes a triangle of a draw call uses
ProvokingVertex(d, t) ==
    IF d.params.provoking_vertex = "FirstVertex"
    THEN d.indices[3 * t + 1]
    ELSE d.indices[3 * t + 3]

\* C5: in every draw call the index buffer is (3,1,2),(3,0,1), vertex 3 is
\* at (-0.5,-0.5) with the least x and the least y of the four vertices,
\* the draw parameters select the first vertex, and so the provoking vertex
\* of both triangles is the bottom-left corner.
C5_ProvokingVertexIsBottomLeft ==
    last_draw /= None =>
        /\ The(last_draw).indices = <<3, 1, 2, 3, 0, 1>>
        /\ The(last_draw).params.provoking_vertex = "FirstVertex"
        /\ Len(The(last_draw).vertices) = 4
        /\ The(last_draw).vertices[3 + 1] = <<0 - 5, 0 - 5>>
        /\ \A t \in {0, 1} :
              LET v == The(last_draw).vertices[ProvokingVertex(The(last_draw), t) + 1]
              IN  /\ ProvokingVertex(The(last_draw), t) = 3
                  /\ \A k \in 1..4 :
                        /\ v[1] <= The(last_draw).vertices[k][1]
                        /\ v[2] <= The(last_draw).vertices[k][2]

C5_Witness ==
    /\ last_draw /= None
    /\ pc = "finish"
    /\ Len(drawn) = 2
    /\ ProvokingVertex(The(last_draw), 1) = 3

Linear == {"Linear", "LinearMipmapLinear", "LinearMipmapNearest",
           "NearestMipmapLinear", "NearestMipmapNearest"}

\* C6: in every draw call the sampler bound to `indices` samples the world
\* texture with Nearest for magnify and minify; the sampler bound to
\* `tilemap` samples the atlas with Nearest for magnify and
\* LinearMipmapLinear for minify, the only non-nearest filter of the call.
C6_IndexSamplerIsNearest ==
    last_draw /= None =>
        LET u == The(last_draw).uniforms
        IN  /\ u.indices.texture = "world"
            /\ u.indices.magnify_filter = "Nearest"
            /\ u.indices.minify_filter = "Nearest"
            /\ u.tilemap.texture = "tilemap"
            /\ u.tilemap.magnify_filter = "Nearest"
            /\ u.tilemap.minify_filter = "LinearMipmapLinear"
            /\ {f \in {<<"indices", "magnify">>, <<"indices", "minify">>,
                       <<"tilemap", "magnify">>, <<"tilemap", "minify">>} :
                   (IF f[2] = "magnify" THEN u[f[1]].magnify_filter
                    ELSE u[f[1]].minify_filter) \in Linear}
                 = {<<"tilemap", "minify">>}

C6_Witness ==
    /\ last_draw /= None
    /\ The(last_draw).uniforms.indices.minify_filter = "Nearest"
    /\ pc = "check"
    /\ Len(drawn) = 2

\* a step that draws or presents a frame
FrameStep ==
    /\ Len(ops') > Len(ops)
    /\ ops'[Len(ops')] \in {"draw", "present"}

FullFrame == <<"zoom", "begin", "clear", "draw", "present">>

\* the closure has been handed a CloseRequested event
CloseReceived == event = "CloseRequested" \/ control_flow = "Exit"

\* what the claim and its amendment share: Exit is set by the iteration that
\* handles CloseRequested, and by no other
ExitOnlyOnClose ==
    /\ (control_flow /= "Exit" /\ control_flow' = "Exit")
          => (event = "CloseRequested" /\ pc = "check")
    /\ (pc = "check" /\ pc' /= "check" /\ event = "CloseRequested")
          => control_flow' = "Exit"

\* C7 as stated: the iteration that handles CloseRequested sets Exit, no
\* other event does, and once a close signal has been received no further
\* frame is drawn or presented.
C7_NoFrameAfterClose ==
    [][ExitOnlyOnClose /\ (CloseReceived => ~FrameStep)]_vars

\* C7 amended: the iteration that handles CloseRequested draws and presents
\* its own frame and then sets Exit, no other event sets it, Exit is never
\* taken back, and once the event loop has terminated no further frame is
\* drawn or presented.
C7_NoFrameAfterLoopExit ==
    [][/\ ExitOnlyOnClose
       /\ (control_flow /= "Exit" /\ control_flow' = "Exit")
             => ops = FullFrame
       /\ control_flow = "Exit" => control_flow' = "Exit"
       /\ pc = "exited" => (~FrameStep /\ pc' = "exited")]_vars

C7_Witness ==
    /\ pc = "exited"
    /\ control_flow = "Exit"
    /\ event = "LoopDestroyed"
    /\ ops = FullFrame

IsPrefix(s, t) == Len(s) <= Len(t) /\ s = SubSeq(t, 1, Len(s))

\* C8: every iteration does compute zoom, begin, clear, draw, present in
\* this order, once each; at most one frame is open at any time, and an
\* iteration that ends has presented its frame.
C8_FrameStepsInOrder ==
    /\ IsPrefix(ops, FullFrame)
    /\ open_frames \in {0, 1}
    /\ pc = "check" => (ops = FullFrame /\ open_frames = 0)
    /\ (pc \in {"wait", "exited"} /\ event /= NoEvent)
          => (ops = FullFrame /\ open_frames = 0)
    /\ pc \in {"clear", "draw", "finish"} => open_frames = 1
    /\ pc \in {"time", "begin"} => open_frames = 0

C8_Witness ==
    /\ pc = "wait"
    /\ event = "MainEventsCleared"
    /\ ops = FullFrame
    /\ open_frames = 0
    /\ Len(drawn) = 2

\* a < b for two zooms num / base^exp of the same num and exp
ZoomLess(a, b) == a.num = b.num /\ a.exp = b.exp /\ b.base < a.base

\* C9 as stated: the zoom of every draw call is 1/elapsed^2 against the one
\* clock origin, positive, and of two successive draw calls with strictly
\* increasing elapsed time the later has the strictly smaller zoom.
C9_ZoomStrictlyDecreasing ==
    /\ [](\A k \in 1..Len(drawn) :
            /\ drawn[k][2].num = 1
            /\ drawn[k][2].exp = 2
            /\ drawn[k][2].base >= 0)
    /\ []((Len(drawn) = 2 /\ drawn[1][1] < drawn[2][1])
            => ZoomLess(drawn[2][2], drawn[1][2]))
    /\ [][start /= None => start' = start]_vars

\* C9 amended: the zoom of every draw call is 1/s^2, s the elapsed time
\* against the one clock origin as f32 seconds; it is positive; of two
\* successive draw calls with increasing elapsed time the later never has the
\* larger zoom, and has the same zoom when both elapsed times round to the
\* same f32; the clock origin never changes once taken.
C9_ZoomNeverIncreases ==
    /\ [](\A k \in 1..Len(drawn) :
            LET e == drawn[k][1]
                z == drawn[k][2]
                err == IF z.base < e THEN e - z.base ELSE z.base - e
            IN  /\ e >= 0
                /\ z.num = 1
                /\ z.exp = 2
                /\ z.base >= 0
                /\ err <= e \div F32_EXACT)
    /\ []((Len(drawn) = 2 /\ drawn[1][1] <= drawn[2][1])
            => ~ZoomLess(drawn[1][2], drawn[2][2]))
    /\ [](last_draw /= None
            => The(last_draw).uniforms.zoom = drawn[Len(drawn)][2])
    /\ [](pc \in {"begin", "clear", "draw"}
            => elapsed = Some(now - The(start)))
    /\ [][start /= None => start' = start]_vars

C9_Witness ==
    /\ Len(drawn) = 2
    /\ drawn[1][1] = F32_EXACT
    /\ drawn[2][1] = F32_EXACT + 1
    /\ drawn[1][2] = drawn[2][2]
    /\ last_draw /= None
    /\ The(last_draw).uniforms.zoom = drawn[2][2]

StartupFailures == {"Display", "Decode", "Texture", "VertexBuffer",
                    "IndexBuffer", "Program"}

\* C10: an operation that fails ends the program at once; after a failure
\* during startup no frame was or will be drawn, the loop never starts and
\* nothing is retried; after a failed draw or present no later step runs.
C10_FailureIsFatal ==
    /\ [](failure /= NoFailure => pc = "panicked")
    /\ []((pc = "panicked" /\ failure \in StartupFailures)
            => (last_draw = None /\ ops = <<>> /\ event = NoEvent
                /\ start = None /\ open_frames = 0))
    /\ [][pc = "panicked" => pc' = "panicked" /\ UNCHANGED vars]_vars
    /\ [][pc' = "panicked" /\ pc /= "panicked" => failure' /= NoFailure]_vars

C10_Witness ==
    /\ pc = "panicked"
    /\ failure = "Draw"
    /\ last_draw /= None
    /\ open_frames = 1
====
